---------------------------- MODULE Spec2Model ----------------------------
(***************************************************************************)
(* Model of KoCharElectraTokenizer (src/pretrain/model/tokenization.py):   *)
(* the vocabulary store (load_vocab, save_vocabulary), the character       *)
(* segmenter (_tokenize), the token codec (_convert_token_to_id,           *)
(* _convert_id_to_token, convert_tokens_to_string) and the sequence        *)
(* assembler (build_inputs_with_special_tokens, get_special_tokens_mask,   *)
(* create_token_type_ids_from_sequences).                                  *)
(*                                                                         *)
(* A character is a one-character string; a text, a token and a file's     *)
(* content are sequences of characters.  A Python dict is a function whose *)
(* DOMAIN is its key set.  An Optional[List[int]] argument is a record     *)
(* [some, v]; the id None (dict.get's default) is the integer None below.  *)
(***************************************************************************)
EXTENDS Integers, Sequences, FiniteSets, TLC

VARIABLES
    vocab_file,     \* content of the file at the vocab_file path
    is_file,        \* os.path.isfile(vocab_file)
    phase,          \* "new": before __init__; "ready": constructed; "failed": __init__ raised
    vocab,          \* self.vocab: token -> id
    ids_to_tokens,  \* self.ids_to_tokens: id -> token
    op,             \* name of the last operation called on the tokenizer
    token_ids_0,    \* first id sequence given to the last assembler call
    token_ids_1,    \* second (optional) id sequence given to the last assembler call
    already_has_special_tokens, \* flag given to the last get_special_tokens_mask call
    ret,            \* list returned by the last assembler call
    raised,         \* exception raised by the last call ("" when it returned)
    text,           \* text given to _tokenize
    tokens,         \* token list being converted
    ids,            \* ids converted from tokens
    out_tokens,     \* tokens converted back from ids
    out_text,       \* string joined from out_tokens
    stage,          \* how far the text -> tokens -> ids -> tokens -> text chain went
    saved_file,     \* content written by save_vocabulary
    saved_path,     \* path returned by save_vocabulary
    warned          \* whether save_vocabulary logged the "not consecutive" warning

vars == <<vocab_file, is_file, phase, vocab, ids_to_tokens, op, token_ids_0,
          token_ids_1, already_has_special_tokens, ret, raised, text, tokens,
          ids, out_tokens, out_text, stage, saved_file, saved_path, warned>>

asm_vars == <<op, token_ids_0, token_ids_1, already_has_special_tokens, ret, raised>>
codec_vars == <<text, tokens, ids, out_tokens, out_text, stage>>
save_vars == <<saved_file, saved_path, warned>>
tok_vars == <<vocab_file, is_file, phase, vocab, ids_to_tokens>>

---------------------------------------------------------------------------
(* Bounds of the model.                                                    *)

\* most lines of a vocabulary file
MaxLines == 3
\* most lines of a vocabulary file in the assembler specification
MaxAsmLines == 2
\* most lines of a vocabulary file in the codec specification
MaxCodecLines == 3
\* most ids in the first sequence of an assembler call
MaxLenA == 2
\* most ids in the second sequence of an assembler call
MaxLenB == 2
\* most characters of a text given to _tokenize
MaxTextLen == 4
\* most tokens of a caller-supplied token list
MaxTokens == 2

---------------------------------------------------------------------------
(* Characters, tokens, Python values.                                      *)

LF == "\n"
CR == "\r"
SP == " "
TAB == "\t"

\* dict.get's default default, an id that is no line index
None == -1

\* Optional[List[int]]
Some(v) == [some |-> TRUE, v |-> v]
NoneList == [some |-> FALSE, v |-> <<>>]

\* the characters str.split() and str.strip() treat as whitespace
Whitespace == {SP, TAB, LF, CR, "\f"}

\* the special-token strings __init__ defaults to
unk_token == <<"[", "U", "N", "K", "]">>
sep_token == <<"[", "S", "E", "P", "]">>
cls_token == <<"[", "C", "L", "S", "]">>
pad_token == <<"[", "P", "A", "D", "]">>
mask_token == <<"[", "M", "A", "S", "K", "]">>

\* all sequences over S of length at most n
RECURSIVE SeqsUpTo(_, _)
SeqsUpTo(S, n) ==
    IF n = 0 THEN {<<>>}
    ELSE LET shorter == SeqsUpTo(S, n - 1)
         IN  shorter \cup {Append(s, x) : s \in shorter, x \in S}

\* "".join(parts)
RECURSIVE Concat(_)
Concat(parts) ==
    IF parts = <<>> THEN <<>> ELSE Head(parts) \o Concat(Tail(parts))

---------------------------------------------------------------------------
(* Vocabulary store: load_vocab.                                           *)

\* open(..., "r") with the default newline=None: "\r\n" and "\r" are read as "\n"
RECURSIVE UniversalNewlines(_)
UniversalNewlines(s) ==
    IF s = <<>> THEN <<>>
    ELSE IF Head(s) = CR
         THEN IF Len(s) >= 2 /\ s[2] = LF
              THEN <<LF>> \o UniversalNewlines(SubSeq(s, 3, Len(s)))
              ELSE <<LF>> \o UniversalNewlines(Tail(s))
         ELSE <<Head(s)>> \o UniversalNewlines(Tail(s))

\* reader.readlines(): the lines, each keeping its "\n"; cur is the line being read
RECURSIVE ReadLinesFrom(_, _)
ReadLinesFrom(s, cur) ==
    IF s = <<>> THEN (IF cur = <<>> THEN <<>> ELSE <<cur>>)
    ELSE IF Head(s) = LF
         THEN <<Append(cur, LF)>> \o ReadLinesFrom(Tail(s), <<>>)
         ELSE ReadLinesFrom(Tail(s), Append(cur, Head(s)))

readlines(content) == ReadLinesFrom(UniversalNewlines(content), <<>>)

\* token.rstrip("\n")
RECURSIVE rstrip_newline(_)
rstrip_newline(line) ==
    IF line # <<>> /\ line[Len(line)] = LF
    THEN rstrip_newline(SubSeq(line, 1, Len(line) - 1))
    ELSE line

\* vocab.setdefault(token, index): a faulty variant that keeps the first id of a token
DictFirstWins(d, k, v) ==
    IF k \in DOMAIN d THEN d ELSE [x \in DOMAIN d \cup {k} |-> IF x = k THEN v ELSE d[x]]

\* vocab[token] = index
DictSet(d, k, v) == [x \in DOMAIN d \cup {k} |-> IF x = k THEN v ELSE d[x]]

\* for index, token in enumerate(tokens, 1): a faulty variant that counts lines from 1
RECURSIVE LoadLoopOneBased(_, _, _)
LoadLoopOneBased(lines, n, d) ==
    IF n > Len(lines) THEN d
    ELSE LoadLoopOneBased(lines, n + 1, DictSet(d, rstrip_newline(lines[n]), n))

\* for index, token in enumerate(tokens): vocab[token.rstrip("\n")] = index
\* (n is the 1-based position of the line, index = n - 1)
RECURSIVE LoadLoop(_, _, _)
LoadLoop(lines, n, d) ==
    IF n > Len(lines) THEN d
    ELSE LoadLoop(lines, n + 1, DictSet(d, rstrip_newline(lines[n]), n - 1))

EmptyDict == [x \in {} |-> None]

load_vocab(content) == LoadLoop(readlines(content), 1, EmptyDict)

\* sorted(d.items(), key=lambda kv: kv[1]): the (token, id) pairs by ascending id
RECURSIVE SortedItems(_, _)
SortedItems(d, keys) ==
    IF keys = {} THEN <<>>
    ELSE LET k == CHOOSE x \in keys : \A y \in keys : d[x] <= d[y]
         IN  <<<<k, d[k]>>>> \o SortedItems(d, keys \ {k})

\* OrderedDict(enumerate(tok for tok, ids in sorted items)): a faulty variant that
\* numbers the tokens by rank instead of by their stored id
ReverseByRank(d) ==
    [i \in 0 .. Cardinality(DOMAIN d) - 1 |-> SortedItems(d, DOMAIN d)[i + 1][1]]

\* OrderedDict([(ids, tok) for tok, ids in self.vocab.items()]); a later pair
\* would overwrite an earlier one with the same id, and load_vocab stores
\* every id once
Reverse(d) ==
    [i \in {d[t] : t \in DOMAIN d} |-> CHOOSE t \in DOMAIN d : d[t] = i]

\* len(self.vocab)
vocab_size == Cardinality(DOMAIN vocab)


\* dict.get(key, default)
dict_get(d, k, default) == IF k \in DOMAIN d THEN d[k] ELSE default

---------------------------------------------------------------------------
(* Character segmenter: _tokenize.                                         *)

\* text.split(): the maximal runs of non-whitespace characters; cur is the
\* word being read
RECURSIVE SplitFrom(_, _)
SplitFrom(s, cur) ==
    IF s = <<>> THEN (IF cur = <<>> THEN <<>> ELSE <<cur>>)
    ELSE IF Head(s) \in Whitespace
         THEN (IF cur = <<>> THEN <<>> ELSE <<cur>>) \o SplitFrom(Tail(s), <<>>)
         ELSE SplitFrom(Tail(s), Append(cur, Head(s)))

\* text.split(" "): a faulty variant that splits at every single space and at
\* nothing else, keeping the empty words between adjacent spaces
RECURSIVE SplitAtSpaces(_, _)
SplitAtSpaces(s, cur) ==
    IF s = <<>> THEN <<cur>>
    ELSE IF Head(s) = SP
         THEN <<cur>> \o SplitAtSpaces(Tail(s), <<>>)
         ELSE SplitAtSpaces(Tail(s), Append(cur, Head(s)))

SplitOnSpace(s) == SplitAtSpaces(s, <<>>)

split(s) == SplitFrom(s, <<>>)

\* sep.join(parts)
RECURSIVE join(_, _)
join(sep, parts) ==
    IF parts = <<>> THEN <<>>
    ELSE IF Len(parts) = 1 THEN parts[1]
    ELSE parts[1] \o sep \o join(sep, Tail(parts))

\* list(s): one single-character token per character
list(s) == [i \in 1 .. Len(s) |-> <<s[i]>>]

\* list("".join(text.split())): a faulty variant that drops the separating space
TokenizeNoSpace(t) == list(join(<<>>, split(t)))

\* list(" ".join(text.split()))
_tokenize(t) == list(join(<<SP>>, split(t)))

---------------------------------------------------------------------------
(* Token codec.                                                            *)

\* self.vocab.get(token, self.vocab.get(self.unk_token))
_convert_token_to_id(token) ==
    dict_get(vocab, token, dict_get(vocab, unk_token, None))

\* self.ids_to_tokens.get(index, self.pad_token): a faulty variant with the wrong default
ConvertIdToTokenPad(index) == dict_get(ids_to_tokens, index, pad_token)

\* self.ids_to_tokens.get(index, self.unk_token)
_convert_id_to_token(index) == dict_get(ids_to_tokens, index, unk_token)

\* s.lstrip(), s.rstrip(), s.strip()
RECURSIVE lstrip(_)
lstrip(s) == IF s # <<>> /\ Head(s) \in Whitespace THEN lstrip(Tail(s)) ELSE s

RECURSIVE rstrip(_)
rstrip(s) ==
    IF s # <<>> /\ s[Len(s)] \in Whitespace
    THEN rstrip(SubSeq(s, 1, Len(s) - 1))
    ELSE s

strip(s) == rstrip(lstrip(s))

\* "".join(tokens).strip()
convert_tokens_to_string(toks) == strip(Concat(toks))

\* the ids the framework resolves for self.cls_token and self.sep_token
cls_token_id == _convert_token_to_id(cls_token)
sep_token_id == _convert_token_to_id(sep_token)

---------------------------------------------------------------------------
(* Sequence assembler.                                                     *)

\* n * [x]
Repeat(x, n) == [i \in 1 .. n |-> x]

\* cls + token_ids_0 + token_ids_1 + sep: a faulty variant that forgets the middle separator
BuildInputsNoMiddleSep(a, b) ==
    IF ~b.some
    THEN <<cls_token_id>> \o a \o <<sep_token_id>>
    ELSE <<cls_token_id>> \o a \o b.v \o <<sep_token_id>>

build_inputs_with_special_tokens(a, b) ==
    IF ~b.some
    THEN <<cls_token_id>> \o a \o <<sep_token_id>>
    ELSE LET cls == <<cls_token_id>>
             sep == <<sep_token_id>>
         IN  cls \o a \o sep \o b.v \o sep

\* the result of a call: the list returned, or the exception raised
Return(v) == [ret |-> v, raised |-> ""]
Raise(e) == [ret |-> <<>>, raised |-> e]

\* a faulty variant that marks only the separator in an already formatted sequence
SpecialTokensMaskSepOnly(a, b, has_special) ==
    IF has_special
    THEN IF b.some
         THEN Raise("ValueError")
         ELSE Return([i \in 1 .. Len(a) |-> IF a[i] \in {sep_token_id} THEN 1 ELSE 0])
    ELSE IF b.some
         THEN Return(<<1>> \o Repeat(0, Len(a)) \o <<1>> \o Repeat(0, Len(b.v)) \o <<1>>)
         ELSE Return(<<1>> \o Repeat(0, Len(a)) \o <<1>>)

\* a faulty variant that leaves the last separator of a pair unmarked
SpecialTokensMaskShortPair(a, b, has_special) ==
    IF has_special
    THEN IF b.some
         THEN Raise("ValueError")
         ELSE Return([i \in 1 .. Len(a) |->
                        IF a[i] \in {sep_token_id, cls_token_id} THEN 1 ELSE 0])
    ELSE IF b.some
         THEN Return(<<1>> \o Repeat(0, Len(a)) \o <<1>> \o Repeat(0, Len(b.v)))
         ELSE Return(<<1>> \o Repeat(0, Len(a)) \o <<1>>)

get_special_tokens_mask(a, b, has_special) ==
    IF has_special
    THEN IF b.some
         THEN Raise("ValueError")
         ELSE Return([i \in 1 .. Len(a) |->
                        IF a[i] \in {sep_token_id, cls_token_id} THEN 1 ELSE 0])
    ELSE IF b.some
         THEN Return(<<1>> \o Repeat(0, Len(a)) \o <<1>> \o Repeat(0, Len(b.v)) \o <<1>>)
         ELSE Return(<<1>> \o Repeat(0, Len(a)) \o <<1>>)

\* a faulty variant that counts the second sequence without its separator
TokenTypeIdsNoSecondSep(a, b) ==
    LET sep == <<sep_token_id>>
        cls == <<cls_token_id>>
    IN  IF ~b.some
        THEN Repeat(0, Len(cls \o a \o sep))
        ELSE Repeat(0, Len(cls \o a \o sep)) \o Repeat(1, Len(b.v))

create_token_type_ids_from_sequences(a, b) ==
    LET sep == <<sep_token_id>>
        cls == <<cls_token_id>>
    IN  IF ~b.some
        THEN Repeat(0, Len(cls \o a \o sep))
        ELSE Repeat(0, Len(cls \o a \o sep)) \o Repeat(1, Len(b.v \o sep))

---------------------------------------------------------------------------
(* Vocabulary store: save_vocabulary.                                      *)

\* writer.write("\n".join(tokens)): a faulty variant that ends no last line
RECURSIVE SaveLoopJoin(_, _, _, _, _)
SaveLoopJoin(items, n, index, written, warn) ==
    IF n > Len(items) THEN [content |-> written, warned |-> warn]
    ELSE LET token == items[n][1]
             token_index == items[n][2]
             mismatch == index # token_index
         IN  SaveLoopJoin(items, n + 1,
                          (IF mismatch THEN token_index ELSE index) + 1,
                          written \o (IF n > 1 THEN <<LF>> ELSE <<>>) \o token,
                          warn \/ mismatch)

\* the loop of save_vocabulary over the sorted items from the n-th on: index is
\* the expected id, written what the writer holds, warn whether it warned
RECURSIVE SaveLoop(_, _, _, _, _)
SaveLoop(items, n, index, written, warn) ==
    IF n > Len(items) THEN [content |-> written, warned |-> warn]
    ELSE LET token == items[n][1]
             token_index == items[n][2]
             mismatch == index # token_index
         IN  SaveLoop(items, n + 1,
                      (IF mismatch THEN token_index ELSE index) + 1,
                      written \o token \o <<LF>>,
                      warn \/ mismatch)

\* os.path.isdir(vocab_path) and the file save_vocabulary opens
VocabPaths == {"out_dir", "out.txt"}
isdir(path) == path = "out_dir"
VOCAB_FILES_NAMES == "vocab.txt"
SavePath(path) == IF isdir(path) THEN <<path, VOCAB_FILES_NAMES>> ELSE <<path>>

---------------------------------------------------------------------------
(* Operations.                                                             *)

\* KoCharElectraTokenizer.__init__
Construct ==
    /\ phase = "new"
    /\ IF ~is_file
       THEN /\ raised' = "ValueError"
            /\ phase' = "failed"
            /\ UNCHANGED <<vocab, ids_to_tokens>>
       ELSE /\ vocab' = load_vocab(vocab_file)
            /\ ids_to_tokens' = Reverse(vocab')
            /\ raised' = ""
            /\ phase' = "ready"
    /\ op' = "__init__"
    /\ UNCHANGED <<vocab_file, is_file, token_ids_0, token_ids_1,
                   already_has_special_tokens, ret>>
    /\ UNCHANGED <<codec_vars, save_vars>>

\* a constructed tokenizer with no call in progress.  No operation below changes
\* vocab or ids_to_tokens, so what a call returns does not depend on the calls
\* before it; the model runs the calls one at a time.
Idle == phase = "ready" /\ op = "__init__" /\ stage = "idle"

\* the caller takes the result of its call; the tokenizer keeps nothing of it
ReturnToCaller ==
    /\ phase = "ready"
    /\ ~Idle
    /\ op' = "__init__"
    /\ token_ids_0' = <<>>
    /\ token_ids_1' = NoneList
    /\ already_has_special_tokens' = FALSE
    /\ ret' = <<>>
    /\ raised' = ""
    /\ text' = <<>>
    /\ tokens' = <<>>
    /\ ids' = <<>>
    /\ out_tokens' = <<>>
    /\ out_text' = <<>>
    /\ stage' = "idle"
    /\ saved_file' = <<>>
    /\ saved_path' = <<>>
    /\ warned' = FALSE
    /\ UNCHANGED tok_vars

\* the ids a caller can pass: every line index of a file, and one past them
IdSet == 0 .. MaxAsmLines
FirstSequences == SeqsUpTo(IdSet, MaxLenA)
SecondSequences == {NoneList} \cup {Some(b) : b \in SeqsUpTo(IdSet, MaxLenB)}

BuildInputs ==
    /\ Idle
    /\ \E a \in FirstSequences, b \in SecondSequences :
          /\ token_ids_0' = a
          /\ token_ids_1' = b
          /\ ret' = build_inputs_with_special_tokens(a, b)
    /\ op' = "build_inputs_with_special_tokens"
    /\ raised' = ""
    /\ already_has_special_tokens' = FALSE
    /\ UNCHANGED <<tok_vars, codec_vars, save_vars>>

GetSpecialTokensMask ==
    /\ Idle
    /\ \E a \in FirstSequences, b \in SecondSequences, has_special \in BOOLEAN :
          LET r == get_special_tokens_mask(a, b, has_special)
          IN  /\ token_ids_0' = a
              /\ token_ids_1' = b
              /\ already_has_special_tokens' = has_special
              /\ ret' = r.ret
              /\ raised' = r.raised
    /\ op' = "get_special_tokens_mask"
    /\ UNCHANGED <<tok_vars, codec_vars, save_vars>>

CreateTokenTypeIds ==
    /\ Idle
    /\ \E a \in FirstSequences, b \in SecondSequences :
          /\ token_ids_0' = a
          /\ token_ids_1' = b
          /\ ret' = create_token_type_ids_from_sequences(a, b)
    /\ op' = "create_token_type_ids_from_sequences"
    /\ raised' = ""
    /\ already_has_special_tokens' = FALSE
    /\ UNCHANGED <<tok_vars, codec_vars, save_vars>>

\* the characters of the texts and the tokens of the caller's token lists
TextChars == {"a", "b", SP, TAB}
Texts == SeqsUpTo(TextChars, MaxTextLen)
TokenLists == SeqsUpTo({<<"a">>, <<"b">>, <<SP>>, unk_token}, MaxTokens)

\* _tokenize(text)
Tokenize ==
    /\ Idle
    /\ \E t \in Texts :
          /\ text' = t
          /\ tokens' = _tokenize(t)
    /\ stage' = "tokenized"
    /\ ids' = <<>>
    /\ out_tokens' = <<>>
    /\ out_text' = <<>>
    /\ UNCHANGED <<tok_vars, asm_vars, save_vars>>

\* a caller's own token list, given to the codec directly
SupplyTokens ==
    /\ Idle
    /\ \E x \in TokenLists : tokens' = x
    /\ text' = <<>>
    /\ stage' = "supplied"
    /\ ids' = <<>>
    /\ out_tokens' = <<>>
    /\ out_text' = <<>>
    /\ UNCHANGED <<tok_vars, asm_vars, save_vars>>

\* _convert_token_to_id on every token
ConvertTokensToIds ==
    /\ phase = "ready"
    /\ stage \in {"tokenized", "supplied"}
    /\ ids' = [i \in 1 .. Len(tokens) |-> _convert_token_to_id(tokens[i])]
    /\ stage' = IF stage = "tokenized" THEN "encoded" ELSE "ids"
    /\ UNCHANGED <<text, tokens, out_tokens, out_text>>
    /\ UNCHANGED <<tok_vars, asm_vars, save_vars>>

\* _convert_id_to_token on every id
ConvertIdsToTokens ==
    /\ phase = "ready"
    /\ stage \in {"encoded", "ids"}
    /\ out_tokens' = [i \in 1 .. Len(ids) |-> _convert_id_to_token(ids[i])]
    /\ stage' = IF stage = "encoded" THEN "detokenized" ELSE "tokens"
    /\ UNCHANGED <<text, tokens, ids, out_text>>
    /\ UNCHANGED <<tok_vars, asm_vars, save_vars>>

\* convert_tokens_to_string(out_tokens)
ConvertTokensToString ==
    /\ phase = "ready"
    /\ stage \in {"detokenized", "tokens"}
    /\ out_text' = convert_tokens_to_string(out_tokens)
    /\ stage' = IF stage = "detokenized" THEN "decoded" ELSE "joined"
    /\ UNCHANGED <<text, tokens, ids, out_tokens>>
    /\ UNCHANGED <<tok_vars, asm_vars, save_vars>>

\* save_vocabulary(vocab_path)
SaveVocabulary ==
    /\ Idle
    /\ \E vocab_path \in VocabPaths :
          LET w == SaveLoop(SortedItems(vocab, DOMAIN vocab), 1, 0, <<>>, FALSE)
          IN  /\ saved_file' = w.content
              /\ warned' = w.warned
              /\ saved_path' = SavePath(vocab_path)
    /\ op' = "save_vocabulary"
    /\ UNCHANGED <<token_ids_0, token_ids_1, already_has_special_tokens, ret, raised>>
    /\ UNCHANGED <<tok_vars, codec_vars>>

---------------------------------------------------------------------------
(* Specifications.                                                         *)

\* lines joined into a file's content; the last line ends in "\n" iff final
RECURSIVE FileOf(_, _)
FileOf(lines, final) ==
    IF lines = <<>> THEN <<>>
    ELSE IF Len(lines) = 1 THEN lines[1] \o (IF final THEN <<LF>> ELSE <<>>)
    ELSE lines[1] \o <<LF>> \o FileOf(Tail(lines), final)

Files(line_tokens, max_lines, finals) ==
    {FileOf(lines, final) : lines \in SeqsUpTo(line_tokens, max_lines), final \in finals}

\* the state before __init__, given the file at the vocabulary path
InitWith(files, is_files) ==
    /\ is_file \in is_files
    /\ vocab_file \in (IF is_file THEN files ELSE {<<>>})
    /\ phase = "new"
    /\ vocab = EmptyDict
    /\ ids_to_tokens = EmptyDict
    /\ op = ""
    /\ token_ids_0 = <<>>
    /\ token_ids_1 = NoneList
    /\ already_has_special_tokens = FALSE
    /\ ret = <<>>
    /\ raised = ""
    /\ text = <<>>
    /\ tokens = <<>>
    /\ ids = <<>>
    /\ out_tokens = <<>>
    /\ out_text = <<>>
    /\ stage = "idle"
    /\ saved_file = <<>>
    /\ saved_path = <<>>
    /\ warned = FALSE

\* the sequence assembler, over vocabularies with and without the special tokens
AssemblerLines == {cls_token, sep_token, unk_token, <<"a">>}
InitAssembler == InitWith(Files(AssemblerLines, MaxAsmLines, {TRUE}), {TRUE})
NextAssembler ==
    \/ Construct
    \/ BuildInputs
    \/ GetSpecialTokensMask
    \/ CreateTokenTypeIds
    \/ ReturnToCaller
SpecAssembler == InitAssembler /\ [][NextAssembler]_vars

\* the segmenter and the codec, over vocabularies of characters
CodecLines == {<<"a">>, <<SP>>, <<TAB>>, unk_token}
InitCodec == InitWith(Files(CodecLines, MaxCodecLines, {TRUE}), {TRUE})
NextCodec ==
    \/ Construct
    \/ Tokenize
    \/ SupplyTokens
    \/ ConvertTokensToIds
    \/ ConvertIdsToTokens
    \/ ConvertTokensToString
    \/ ReturnToCaller
SpecCodec == InitCodec /\ [][NextCodec]_vars

\* the vocabulary store, over files with duplicate lines, blank lines,
\* carriage returns and a last line with or without its newline
VocabularyLines == {<<"a">>, <<"b">>, <<"a", CR>>, <<>>, unk_token}
InitVocabulary == InitWith(Files(VocabularyLines, MaxLines, BOOLEAN), BOOLEAN)
NextVocabulary ==
    \/ Construct
    \/ SaveVocabulary
    \/ ReturnToCaller
SpecVocabulary == InitVocabulary /\ [][NextVocabulary]_vars

---------------------------------------------------------------------------
(* Sequence assembler: claims C1, C2, C3, C10 (SpecAssembler).             *)

\* the positions (from 1) at which the assembled layout [CLS] A [SEP] or
\* [CLS] A [SEP] B [SEP] holds a separator
SepPositions(a, b) ==
    {Len(a) + 2} \cup (IF b.some THEN {Len(a) + Len(b.v) + 3} ELSE {})

\* C1: build_inputs_with_special_tokens returns the classifier id, then A
\* unchanged and in order, then the separator id, and for a pair also B
\* unchanged and in order and a second separator id; its length is len(A)+2
\* respectively len(A)+len(B)+3.
C1_BuildInputsLayout ==
    op = "build_inputs_with_special_tokens" =>
        LET a == token_ids_0
            b == token_ids_1
        IN  /\ raised = ""
            /\ Len(ret) = (IF b.some THEN Len(a) + Len(b.v) + 3 ELSE Len(a) + 2)
            /\ ret[1] = cls_token_id
            /\ \A i \in 1 .. Len(a) : ret[1 + i] = a[i]
            /\ ret[Len(a) + 2] = sep_token_id
            /\ b.some =>
                  /\ \A j \in 1 .. Len(b.v) : ret[Len(a) + 2 + j] = b.v[j]
                  /\ ret[Len(a) + Len(b.v) + 3] = sep_token_id

C1_Witness ==
    /\ op = "build_inputs_with_special_tokens"
    /\ token_ids_1.some
    /\ Len(token_ids_0) = 2
    /\ Len(token_ids_1.v) = 1
    /\ cls_token_id # None
    /\ sep_token_id # None
    /\ cls_token_id # sep_token_id
    /\ ret = <<cls_token_id, token_ids_0[1], token_ids_0[2], sep_token_id,
               token_ids_1.v[1], sep_token_id>>

C3_TokenTypeIds ==
    op = "create_token_type_ids_from_sequences" =>
        LET a == token_ids_0
            b == token_ids_1
        IN  /\ raised = ""
            /\ Len(ret) = Len(a) + 2 + (IF b.some THEN Len(b.v) + 1 ELSE 0)
            /\ \A p \in 1 .. Len(ret) : ret[p] = (IF p <= Len(a) + 2 THEN 0 ELSE 1)
            /\ Len(ret) = Len(build_inputs_with_special_tokens(a, b))

C3_Witness ==
    /\ op = "create_token_type_ids_from_sequences"
    /\ token_ids_0 = <<>>
    /\ token_ids_1 = Some(<<>>)
    /\ ret = <<0, 0, 1>>

---------------------------------------------------------------------------
(* Segmenter and codec: claims C4, C5, C6 (SpecCodec).                     *)

\* t with each run of whitespace replaced by one space and the leading and
\* trailing whitespace removed, read off t character by character; acc is the
\* text so far and gap whether whitespace was passed since its last character
RECURSIVE CollapseFrom(_, _, _)
CollapseFrom(t, acc, gap) ==
    IF t = <<>> THEN acc
    ELSE IF Head(t) \in Whitespace
         THEN CollapseFrom(Tail(t), acc, acc # <<>>)
         ELSE CollapseFrom(Tail(t),
                           (IF gap THEN Append(acc, SP) ELSE acc) \o <<Head(t)>>,
                           FALSE)

Collapsed(t) == CollapseFrom(t, <<>>, FALSE)

\* every character of t is a token of the vocabulary
AllInVocab(t) == \A i \in 1 .. Len(t) : <<t[i]>> \in DOMAIN vocab

\* C4 as stated: for every text whose characters are all in the vocabulary,
\* decoding the encoded text gives the text with whitespace runs collapsed to
\* one space and the ends stripped.
C4_RoundTripAsStated ==
    (stage = "decoded" /\ AllInVocab(text)) => out_text = Collapsed(text)

\* C4 amended: the same, for every text whose collapsed form has all its
\* characters in the vocabulary (the text's non-whitespace characters and,
\* when the text has two words or more, the space).
C4_RoundTrip ==
    (stage = "decoded" /\ AllInVocab(Collapsed(text))) => out_text = Collapsed(text)

C4_Witness ==
    /\ stage = "decoded"
    /\ AllInVocab(Collapsed(text))
    /\ Len(text) = 4
    /\ text[1] \notin Whitespace
    /\ text[2] \in Whitespace
    /\ text[3] \in Whitespace
    /\ text[4] \notin Whitespace
    /\ out_text = <<text[1], SP, text[4]>>

\* C5: _convert_token_to_id returns the mapped id of a token of the
\* vocabulary and otherwise the id of the unknown token, always an integer id
\* and never a missing value; _convert_id_to_token returns the mapped token
\* of a mapped id and otherwise the unknown-token string.
C5_LookupsTotal ==
    /\ stage \in {"encoded", "ids"} =>
          \A i \in 1 .. Len(tokens) :
             /\ Len(ids) = Len(tokens)
             /\ ids[i] # None
             /\ tokens[i] \in DOMAIN vocab => ids[i] = vocab[tokens[i]]
             /\ tokens[i] \notin DOMAIN vocab =>
                   unk_token \in DOMAIN vocab /\ ids[i] = vocab[unk_token]
    /\ stage \in {"detokenized", "tokens"} =>
          \A i \in 1 .. Len(ids) :
             /\ Len(out_tokens) = Len(ids)
             /\ out_tokens[i] = (IF ids[i] \in DOMAIN ids_to_tokens
                                 THEN ids_to_tokens[ids[i]] ELSE unk_token)

\* C6: converting tokens to ids and back keeps the length and gives, at every
\* position, the original token when it is in the vocabulary and the
\* unknown-token string when it is not, duplicate lines in the file included.
C6_TokensIdsTokens ==
    stage \in {"detokenized", "tokens"} =>
        /\ Len(out_tokens) = Len(tokens)
        /\ \A i \in 1 .. Len(tokens) :
              out_tokens[i] = (IF tokens[i] \in DOMAIN vocab THEN tokens[i] ELSE unk_token)

\* the tokens on the lines of the vocabulary file, in file order
FileTokens ==
    LET lines == readlines(vocab_file)
    IN  [n \in 1 .. Len(lines) |-> rstrip_newline(lines[n])]

\* some token stands on two lines of the vocabulary file
HasDuplicateLines ==
    \E m, n \in 1 .. Len(FileTokens) : m # n /\ FileTokens[m] = FileTokens[n]

C6_Witness ==
    /\ stage = "tokens"
    /\ HasDuplicateLines
    /\ Len(tokens) = 2
    /\ tokens[1] \in DOMAIN vocab
    /\ tokens[2] \notin DOMAIN vocab
    /\ tokens[2] # unk_token
    /\ out_tokens = <<tokens[1], unk_token>>

---------------------------------------------------------------------------
(* Vocabulary store: claims C7, C8, C9 (SpecVocabulary).                   *)

\* the ids stored in the forward map
StoredIds == {vocab[t] : t \in DOMAIN vocab}

\* the ids are contiguous from 0
IdsContiguous == StoredIds = 0 .. vocab_size - 1

\* the zero-based indices of the lines of the file that hold token t
LineIndices(t) == {n - 1 : n \in {m \in 1 .. Len(FileTokens) : FileTokens[m] = t}}

\* the largest member of a non-empty set of integers
Largest(S) == CHOOSE x \in S : \A y \in S : y <= x

\* C7 as stated: after load of any vocabulary file the stored ids are exactly
\* 0 .. size-1, each the index of a line its token was read from.
C7_ContiguousAsStated ==
    phase = "ready" =>
        /\ IdsContiguous
        /\ \A t \in DOMAIN vocab : vocab[t] \in LineIndices(t)

\* C7 amended: after load of any vocabulary file the tokens stored are those
\* of its lines, each with the index of the last line that holds it, so no two
\* tokens share an id; the ids are exactly 0 .. size-1 if and only if no token
\* stands on two lines.
C7_UniqueIds ==
    phase = "ready" =>
        /\ DOMAIN vocab = {FileTokens[n] : n \in 1 .. Len(FileTokens)}
        /\ \A t \in DOMAIN vocab : vocab[t] = Largest(LineIndices(t))
        /\ \A t, u \in DOMAIN vocab : vocab[t] = vocab[u] => t = u
        /\ IdsContiguous <=> ~HasDuplicateLines

C7_Witness ==
    /\ phase = "ready"
    /\ Len(FileTokens) = 3
    /\ HasDuplicateLines
    /\ vocab_size = 2
    /\ StoredIds = {0, 2}

\* C8: a token that stands on two or more lines gets the index of the last
\* of them, the reverse map sends that index to the token, and the reverse
\* map has no entry at the earlier lines' indices.
C8_LastDuplicateWins ==
    phase = "ready" =>
        \A t \in DOMAIN vocab :
            Cardinality(LineIndices(t)) >= 2 =>
                LET last == Largest(LineIndices(t))
                IN  /\ vocab[t] = last
                    /\ last \in DOMAIN ids_to_tokens
                    /\ ids_to_tokens[last] = t
                    /\ \A e \in LineIndices(t) \ {last} : e \notin DOMAIN ids_to_tokens

C8_Witness ==
    /\ phase = "ready"
    /\ Len(FileTokens) = 3
    /\ FileTokens[1] = FileTokens[3]
    /\ FileTokens[1] # FileTokens[2]
    /\ vocab[FileTokens[1]] = 2
    /\ DOMAIN ids_to_tokens = {1, 2}

\* the file ends every line, the last one too, with a line feed and holds no
\* carriage return
NewlineTerminated(content) ==
    /\ \A i \in 1 .. Len(content) : content[i] # CR
    /\ content = <<>> \/ content[Len(content)] = LF

\* content as it is read, with a line feed added to an unterminated last line
Terminated(content) ==
    LET read == UniversalNewlines(content)
    IN  IF read = <<>> \/ read[Len(read)] = LF THEN read ELSE Append(read, LF)

---------------------------------------------------------------------------
(* Construction: claim C11 (SpecVocabulary).                               *)

\* the five special tokens of the tokenizer
SpecialTokens == {unk_token, sep_token, pad_token, cls_token, mask_token}

\* token resolves to an id through the loaded vocabulary
Resolves(token) == _convert_token_to_id(token) # None

\* C11: construction fails, and leaves no tokenizer, when the vocabulary path
\* is no regular file or one of the five special tokens resolves to no id in
\* the loaded vocabulary; every constructed tokenizer resolves all five.
C11_ConstructionAllOrNothing ==
    /\ phase = "failed" => raised = "ValueError"
    /\ (phase # "new" /\ ~is_file) => phase = "failed"
    /\ phase = "ready" => \A token \in SpecialTokens : Resolves(token)

---------------------------------------------------------------------------
(* Character segmenter: claim C12 (SpecCodec).                             *)

\* the non-whitespace characters of t, in order
NonWhitespace(t) == SelectSeq(t, LAMBDA c : c \notin Whitespace)

\* the characters of a list of single-character tokens
RECURSIVE Characters(_)
Characters(toks) ==
    IF toks = <<>> THEN <<>>
    ELSE (IF Len(Head(toks)) = 1 THEN <<Head(toks)[1]>> ELSE <<"?">>)
         \o Characters(Tail(toks))

\* C12: _tokenize returns single-character tokens, the characters of the
\* text's words joined by one space: none for an empty or all-whitespace
\* text, no space first or last, no two spaces in a row, no whitespace other
\* than the space, and the text's non-whitespace characters in their order
\* and case.
C12_TokenizeCharacters ==
    stage = "tokenized" =>
        LET n == Len(tokens)
        IN  /\ \A i \in 1 .. n : Len(tokens[i]) = 1
            /\ Characters(tokens) = Collapsed(text)
            /\ NonWhitespace(text) = <<>> <=> tokens = <<>>
            /\ n > 0 => tokens[1] # <<SP>> /\ tokens[n] # <<SP>>
            /\ \A i \in 1 .. n - 1 : ~(tokens[i] = <<SP>> /\ tokens[i + 1] = <<SP>>)
            /\ \A i \in 1 .. n : tokens[i][1] \in Whitespace => tokens[i] = <<SP>>
            /\ NonWhitespace(Characters(tokens)) = NonWhitespace(text)

C12_Witness ==
    /\ stage = "tokenized"
    /\ Len(text) = 4
    /\ text[1] \in Whitespace
    /\ text[2] \notin Whitespace
    /\ text[3] = TAB
    /\ text[4] \notin Whitespace
    /\ tokens = <<<<text[2]>>, <<SP>>, <<text[4]>>>>

=============================================================================
